---- MODULE Spec2Model ----
(***************************************************************************)
(* Model of backend/app.py: the Flask prediction API (load_models, health, *)
(* predict, validate_entry and the __main__ block).                        *)
(*                                                                         *)
(* Numbers.  Request numbers are fixed-point integers in TENTHS (85.5 is   *)
(* 855).  Raw model outputs are integers in MILLIONTHS (0.123456 is        *)
(* 123456), or one of the IEEE specials nan, +inf, -inf.                   *)
(***************************************************************************)
EXTENDS Integers, Sequences, FiniteSets, TLC

VARIABLES persistence_model, completion_model, gpa_2nd_model, scaler_main,
          feature_info, model_dir, run_mode, pc, load_result,
          request, response, calls

globals == <<persistence_model, completion_model, gpa_2nd_model, scaler_main,
             feature_info>>
vars == <<persistence_model, completion_model, gpa_2nd_model, scaler_main,
          feature_info, model_dir, run_mode, pc, load_result,
          request, response, calls>>

(***************************************************************************)
(* JSON values as request.get_json() hands them to the handlers.           *)
(*   int      a JSON integer, v = 10 * n                                   *)
(*   float    a JSON number with a fraction or exponent, v in tenths       *)
(*   strint   a string holding an integer literal ("40"), v = 10 * n       *)
(*   strfloat a string holding a decimal literal ("8.5"), v in tenths      *)
(*   strbad   a string that is no number ("abc")                           *)
(*   bool     true / false, v = 1 / 0                                      *)
(*   null     JSON null, Python None                                       *)
(***************************************************************************)
JInt(n) == [t |-> "int", v |-> 10 * n]
JFloat(tenths) == [t |-> "float", v |-> tenths]
JStrInt(n) == [t |-> "strint", v |-> 10 * n]
JStrFloat(tenths) == [t |-> "strfloat", v |-> tenths]
JStrBad == [t |-> "strbad", v |-> 0]
JBool(b) == [t |-> "bool", v |-> IF b THEN 1 ELSE 0]
JNull == [t |-> "null", v |-> 0]

\* Truncation toward zero of a value in tenths, as int() does on a float.
Trunc(tenths) == IF tenths >= 0 THEN tenths \div 10 ELSE -((-tenths) \div 10)

\* Python float(x): [ok, v] with v in tenths; ok = FALSE stands for the
\* ValueError (non-numeric string) or TypeError (None) it raises.
PyFloat(j) ==
    CASE j.t \in {"int", "float", "strint", "strfloat"} -> [ok |-> TRUE, v |-> j.v]
      [] j.t = "bool" -> [ok |-> TRUE, v |-> 10 * j.v]
      [] OTHER -> [ok |-> FALSE, v |-> 0]

\* Python int(x): [ok, v] with v the integer; a float is truncated toward
\* zero, a string must be an integer literal ("8.5" raises ValueError).
PyInt(j) ==
    CASE j.t \in {"int", "strint"} -> [ok |-> TRUE, v |-> j.v \div 10]
      [] j.t = "float" -> [ok |-> TRUE, v |-> Trunc(j.v)]
      [] j.t = "bool" -> [ok |-> TRUE, v |-> j.v]
      [] OTHER -> [ok |-> FALSE, v |-> 0]

(***************************************************************************)
(* Request bodies: what request.get_json() yields.                         *)
(*   unparseable  get_json() raises (no JSON body, wrong content type)     *)
(*   null         get_json() returns None                                  *)
(*   dict         a JSON object; d maps every key of Keys to its value,    *)
(*                or to Absent when the object has no such member          *)
(*   emptylist    []                                                       *)
(*   list         a non-empty JSON array of numbers                        *)
(*   number       a non-zero JSON number                                   *)
(*   string       a non-empty JSON string (no field name inside it)        *)
(***************************************************************************)
Absent == [t |-> "absent", v |-> 0]

\* The request keys of /predict in the column order of MAIN_FEATURES.
MAIN_FEATURES ==
    <<"firstLanguage", "funding", "school", "fastTrack", "coop", "residency",
      "gender", "prevEducation", "ageGroup", "highSchool", "mathScore",
      "englishGrade", "firstTermGpa">>

NumFeatures == Len(MAIN_FEATURES)

PredictKeys == {MAIN_FEATURES[i] : i \in 1..NumFeatures}

\* Every member name a request object may carry: the 13 fields and one name
\* no handler reads.
Keys == PredictKeys \cup {"extra"}

NoMembers == [k \in Keys |-> Absent]
Body(kind) == [kind |-> kind, d |-> NoMembers]
Dict(d) == [kind |-> "dict", d |-> d]
Members(d) == {k \in Keys : d[k] # Absent}

\* Python truthiness of the parsed body (`if not data`): None, {} and [] are
\* false.
Truthy(data) ==
    CASE data.kind = "dict" -> Members(data.d) # {}
      [] data.kind \in {"list", "number", "string"} -> TRUE
      [] OTHER -> FALSE

\* data.get(key, default) on a dict.
Get(d, key, default) == IF d[key] # Absent THEN d[key] ELSE default

(***************************************************************************)
(* The Model Store objects.  A global is None or a loaded object.  The     *)
(* networks and the scaler are opaque library objects; they are modelled   *)
(* by stubs that fix what .predict / .transform return:                    *)
(*   lin    a network whose output depends on every scaled feature         *)
(*   const  a network that returns raw (millionths) for every input        *)
(*   nan, inf, ninf   a network that returns that IEEE special             *)
(*   raise  an object whose call raises an exception                       *)
(*   std    a fitted StandardScaler (subtracts the per-column mean)        *)
(*   info   the metadata dictionary of model_info_nn.pkl                   *)
(***************************************************************************)
None == [kind |-> "None", raw |-> 0]
Obj(kind) == [kind |-> kind, raw |-> 0]
ConstNet(raw) == [kind |-> "const", raw |-> raw]

\* Python truthiness of a global (`all([...])`): None is false, any loaded
\* object is true.
Loaded(obj) == obj.kind # "None"

\* A module-global namespace, as the handlers read it.
Globals(pm, cm, gm, sc, fi) ==
    [persistence_model |-> pm, completion_model |-> cm, gpa_2nd_model |-> gm,
     scaler_main |-> sc, feature_info |-> fi]

\* Floating-point results: finite (v in the unit of the context) or special.
Fin(v) == [k |-> "fin", v |-> v]
NaN == [k |-> "nan", v |-> 0]
PosInf == [k |-> "inf", v |-> 0]
NegInf == [k |-> "ninf", v |-> 0]

\* a < b on floats; every comparison with nan is false.
FLt(a, b) ==
    CASE a.k = "nan" \/ b.k = "nan" -> FALSE
      [] a.k = "ninf" -> b.k # "ninf"
      [] a.k = "inf" -> FALSE
      [] b.k = "ninf" -> FALSE
      [] b.k = "inf" -> TRUE
      [] OTHER -> a.v < b.v

\* Python min(a, b) and max(a, b): the first argument unless the second is
\* strictly smaller (larger); so a nan second argument yields the first.
PyMin(a, b) == IF FLt(b, a) THEN b ELSE a
PyMax(a, b) == IF FLt(a, b) THEN b ELSE a

\* x * c for a positive constant c (changes the unit of a finite value).
FMul(x, c) == IF x.k = "fin" THEN Fin(x.v * c) ELSE x

\* Nearest integer to v / q (q > 0), ties to even.
RoundDiv(v, q) ==
    LET a == IF v >= 0 THEN v ELSE -v
        lo == a \div q
        r == a % q
        n == IF 2 * r > q \/ (2 * r = q /\ lo % 2 = 1) THEN lo + 1 ELSE lo
    IN IF v >= 0 THEN n ELSE -n

\* Python round(x, ndigits) on a float whose unit is 1/q of the result unit.
PyRound(x, q) == IF x.k = "fin" THEN Fin(RoundDiv(x.v, q)) ELSE x

RECURSIVE WeightedSum(_, _)
WeightedSum(xs, i) == IF i = 0 THEN 0 ELSE i * xs[i] + WeightedSum(xs, i - 1)

\* The per-column mean (tenths) the stub scaler was fitted with.
ScalerMean == <<10, 10, 10, 10, 10, 10, 10, 10, 10, 800, 300, 80, 30>>

\* scaler_main.transform(features_df): [ok, xs].
Transform(scaler, x) ==
    IF scaler.kind = "std"
    THEN [ok |-> TRUE, xs |-> [i \in 1..NumFeatures |-> x[i] - ScalerMean[i]]]
    ELSE [ok |-> FALSE, xs |-> x]

\* float(model.predict(features_scaled, verbose=0)[0][0]): [ok, out], out in
\* millionths.
Forward(net, xs) ==
    CASE net.kind = "lin" ->
           [ok |-> TRUE, out |-> Fin(500000 + 10 * WeightedSum(xs, NumFeatures))]
      [] net.kind = "const" -> [ok |-> TRUE, out |-> Fin(net.raw)]
      [] net.kind = "nan" -> [ok |-> TRUE, out |-> NaN]
      [] net.kind = "inf" -> [ok |-> TRUE, out |-> PosInf]
      [] net.kind = "ninf" -> [ok |-> TRUE, out |-> NegInf]
      [] OTHER -> [ok |-> FALSE, out |-> NaN]

(***************************************************************************)
(* Responses.  A response is what `return jsonify(...), code` produces:    *)
(* the status code, the "status" and "message" members ("" when the        *)
(* payload has no such member) and the other members as `fields`, each a   *)
(* JSON value or Absent.  Units: the two probabilities are in              *)
(* ten-thousandths, predictedSecondTermGpa in hundredths, every echoed     *)
(* value in tenths as in the request.                                      *)
(***************************************************************************)
PredictionFields ==
    {"persistenceProbability", "completionProbability",
     "predictedSecondTermGpa", "providedFirstTermGpa"}

EntryFields == {"entryData.highSchool", "entryData.mathScore", "entryData.englishGrade"}

ResponseFields == PredictionFields \cup EntryFields \cup {"models_loaded"}

NoFields == [k \in ResponseFields |-> Absent]

\* A float of the response as a JSON value.
JNum(x) == IF x.k = "fin" THEN [t |-> "float", v |-> x.v] ELSE [t |-> x.k, v |-> 0]

\* What a handler returns, with the store objects it called on the way.
Reply(code, status, message, fields, called) ==
    [code |-> code, status |-> status, message |-> message,
     fields |-> fields, calls |-> called]

Error(code, message, called) == Reply(code, "error", message, NoFields, called)

\* Mutant of models_ready: the scaler is not among the objects tested.
models_ready_without_scaler(G) ==
    /\ Loaded(G.persistence_model)
    /\ Loaded(G.completion_model)
    /\ Loaded(G.gpa_2nd_model)

\* all([persistence_model, completion_model, gpa_2nd_model, scaler_main])
models_ready(G) ==
    /\ Loaded(G.persistence_model)
    /\ Loaded(G.completion_model)
    /\ Loaded(G.gpa_2nd_model)
    /\ Loaded(G.scaler_main)

\* GET /health
health_view(G) ==
    Reply(IF models_ready(G) THEN 200 ELSE 503,
          IF models_ready(G) THEN "healthy" ELSE "models_not_loaded",
          "",
          [NoFields EXCEPT !["models_loaded"] = JBool(models_ready(G))],
          <<>>)

(***************************************************************************)
(* POST /predict                                                           *)
(***************************************************************************)
\* int(data.get(key, default)) and float(data.get(key, default)) as one
\* DataFrame column: [ok, v] with v in tenths.
IntCol(d, key, default) ==
    LET r == PyInt(Get(d, key, default)) IN [ok |-> r.ok, v |-> 10 * r.v]
FloatCol(d, key, default) == PyFloat(Get(d, key, default))

\* The single DataFrame row, in the order of MAIN_FEATURES.
FeatureRow(d) ==
    <<IntCol(d, "firstLanguage", JInt(1)),
      IntCol(d, "funding", JInt(1)),
      IntCol(d, "school", JInt(1)),
      IntCol(d, "fastTrack", JInt(1)),
      IntCol(d, "coop", JInt(1)),
      IntCol(d, "residency", JInt(1)),
      IntCol(d, "gender", JInt(1)),
      IntCol(d, "prevEducation", JInt(1)),
      IntCol(d, "ageGroup", JInt(1)),
      FloatCol(d, "highSchool", JInt(0)),
      FloatCol(d, "mathScore", JInt(0)),
      IntCol(d, "englishGrade", JInt(1)),
      FloatCol(d, "firstTermGpa", JInt(0))>>

\* Mutant of Clamp: the clamping line is left out.
Clamp_left_out(hi, x) == x

\* max(0.0, min(hi, x))
Clamp(hi, x) == PyMax(Fin(0), PyMin(Fin(hi), x))

\* gpa_2nd_pred * 4.5: millionths in, units of 1e-7 out.
ScaleGpa(x) == FMul(x, 45)

\* Mutant of ProvidedFirstTermGpa: the echo is coerced with int().
ProvidedFirstTermGpa_as_int(d) == IntCol(d, "firstTermGpa", JInt(0))

\* float(data.get("firstTermGpa", 0)) of the response.
ProvidedFirstTermGpa(d) == PyFloat(Get(d, "firstTermGpa", JInt(0)))

\* The success payload from the three raw outputs.
PredictionPayload(d, persistence_pred, completion_pred, gpa_2nd_pred) ==
    LET persistence_prob == Clamp(1000000, persistence_pred)
        completion_prob == Clamp(1000000, completion_pred)
        gpa_2nd == Clamp(45000000, ScaleGpa(gpa_2nd_pred))
    IN [NoFields EXCEPT
          !["persistenceProbability"] = JNum(PyRound(persistence_prob, 100)),
          !["completionProbability"] = JNum(PyRound(completion_prob, 100)),
          !["predictedSecondTermGpa"] = JNum(PyRound(gpa_2nd, 100000)),
          !["providedFirstTermGpa"] = JNum(Fin(ProvidedFirstTermGpa(d).v))]

\* Mutant of PredictTry: when a model raises, the outputs computed so far
\* are returned with the error.
PredictTry_partial(G, d) ==
    LET row == FeatureRow(d)
        x == [i \in 1..NumFeatures |-> row[i].v]
        scaled == Transform(G.scaler_main, x)
        p == Forward(G.persistence_model, scaled.xs)
        c == Forward(G.completion_model, scaled.xs)
        g == Forward(G.gpa_2nd_model, scaled.xs)
        sofar == [NoFields EXCEPT
                    !["persistenceProbability"] =
                        JNum(PyRound(Clamp(1000000, p.out), 100))]
    IN IF \E i \in 1..NumFeatures : ~row[i].ok
       THEN Error(400, "Prediction error", <<>>)
       ELSE IF ~scaled.ok
       THEN Error(400, "Prediction error", <<"scaler_main">>)
       ELSE IF ~p.ok
       THEN Error(400, "Prediction error", <<"scaler_main", "persistence_model">>)
       ELSE IF ~c.ok
       THEN Reply(400, "error", "Prediction error", sofar,
                  <<"scaler_main", "persistence_model", "completion_model">>)
       ELSE IF ~g.ok
       THEN Reply(400, "error", "Prediction error", sofar,
                  <<"scaler_main", "persistence_model", "completion_model",
                    "gpa_2nd_model">>)
       ELSE Reply(200, "success", "",
                  PredictionPayload(d, p.out, c.out, g.out),
                  <<"scaler_main", "persistence_model", "completion_model",
                    "gpa_2nd_model">>)

\* The body of the try block once data is a non-empty object.
PredictTry(G, d) ==
    LET row == FeatureRow(d)
        x == [i \in 1..NumFeatures |-> row[i].v]
        scaled == Transform(G.scaler_main, x)
        p == Forward(G.persistence_model, scaled.xs)
        c == Forward(G.completion_model, scaled.xs)
        g == Forward(G.gpa_2nd_model, scaled.xs)
    IN IF \E i \in 1..NumFeatures : ~row[i].ok
       THEN Error(400, "Prediction error", <<>>)
       ELSE IF ~scaled.ok
       THEN Error(400, "Prediction error", <<"scaler_main">>)
       ELSE IF ~p.ok
       THEN Error(400, "Prediction error", <<"scaler_main", "persistence_model">>)
       ELSE IF ~c.ok
       THEN Error(400, "Prediction error",
                  <<"scaler_main", "persistence_model", "completion_model">>)
       ELSE IF ~g.ok
       THEN Error(400, "Prediction error",
                  <<"scaler_main", "persistence_model", "completion_model",
                    "gpa_2nd_model">>)
       ELSE Reply(200, "success", "",
                  PredictionPayload(d, p.out, c.out, g.out),
                  <<"scaler_main", "persistence_model", "completion_model",
                    "gpa_2nd_model">>)

predict_view(G, data) ==
    IF ~models_ready(G)
    THEN Error(503, "Models not loaded. Please restart the server.", <<>>)
    ELSE IF data.kind = "unparseable"
    THEN Error(400, "Prediction error", <<>>)
    ELSE IF ~Truthy(data)
    THEN Error(400, "No input data provided", <<>>)
    ELSE IF data.kind # "dict"
    THEN Error(400, "Prediction error", <<>>)
    ELSE PredictTry(G, data.d)

(***************************************************************************)
(* POST /validate-entry                                                    *)
(***************************************************************************)
required == <<"highSchool", "mathScore", "englishGrade">>

\* [f for f in required if f not in data] is non-empty.  `in` on a list of
\* numbers or on a string without the names finds none of them.
HasMissing(data) ==
    IF data.kind = "dict"
    THEN \E i \in 1..Len(required) : data.d[required[i]] = Absent
    ELSE TRUE

\* Mutant of ValidateRanges: entryData.highSchool is filled from math.
ValidateRanges_crossed(d) ==
    LET hs == PyFloat(d["highSchool"])
        math == PyFloat(d["mathScore"])
        eng == PyInt(d["englishGrade"])
    IN IF ~hs.ok \/ ~math.ok \/ ~eng.ok
       THEN Error(400, "could not convert", <<>>)
       ELSE IF ~(0 <= hs.v /\ hs.v <= 1000)
       THEN Error(400, "High School Average must be 0-100", <<>>)
       ELSE IF ~(0 <= math.v /\ math.v <= 500)
       THEN Error(400, "Math Score must be 0-50", <<>>)
       ELSE IF ~(1 <= eng.v /\ eng.v <= 11)
       THEN Error(400, "English Grade must be 1-11", <<>>)
       ELSE Reply(200, "success",
                  "Entry data validated. Please provide your actual 1st term GPA to predict student outcomes.",
                  [NoFields EXCEPT
                     !["entryData.highSchool"] = JFloat(math.v),
                     !["entryData.mathScore"] = JFloat(math.v),
                     !["entryData.englishGrade"] = JInt(eng.v)],
                  <<>>)

\* The inner try block: coercion, then the three range checks.
ValidateRanges(d) ==
    LET hs == PyFloat(d["highSchool"])
        math == PyFloat(d["mathScore"])
        eng == PyInt(d["englishGrade"])
    IN IF ~hs.ok \/ ~math.ok \/ ~eng.ok
       THEN Error(400, "could not convert", <<>>)
       ELSE IF ~(0 <= hs.v /\ hs.v <= 1000)
       THEN Error(400, "High School Average must be 0-100", <<>>)
       ELSE IF ~(0 <= math.v /\ math.v <= 500)
       THEN Error(400, "Math Score must be 0-50", <<>>)
       ELSE IF ~(1 <= eng.v /\ eng.v <= 11)
       THEN Error(400, "English Grade must be 1-11", <<>>)
       ELSE Reply(200, "success",
                  "Entry data validated. Please provide your actual 1st term GPA to predict student outcomes.",
                  [NoFields EXCEPT
                     !["entryData.highSchool"] = JFloat(hs.v),
                     !["entryData.mathScore"] = JFloat(math.v),
                     !["entryData.englishGrade"] = JInt(eng.v)],
                  <<>>)

\* Mutant of validate_entry_view: the handler starts with the readiness
\* test of predict.
validate_entry_view_gated(G, data) ==
    IF ~models_ready(G)
    THEN Error(503, "Models not loaded. Please restart the server.", <<>>)
    ELSE IF data.kind = "unparseable"
    THEN Error(400, "Validation error", <<>>)
    ELSE IF ~Truthy(data)
    THEN Error(400, "No input data provided", <<>>)
    ELSE IF data.kind = "number"
    THEN Error(400, "Validation error", <<>>)
    ELSE IF HasMissing(data)
    THEN Error(400, "Missing required fields", <<>>)
    ELSE ValidateRanges(data.d)

\* G, the module globals, is in scope of the handler as of every function
\* of the module; validate_entry names none of them.
validate_entry_view(G, data) ==
    IF data.kind = "unparseable"
    THEN Error(400, "Validation error", <<>>)
    ELSE IF ~Truthy(data)
    THEN Error(400, "No input data provided", <<>>)
    ELSE IF data.kind = "number"
    THEN Error(400, "Validation error", <<>>)
    ELSE IF HasMissing(data)
    THEN Error(400, "Missing required fields", <<>>)
    ELSE ValidateRanges(data.d)

(***************************************************************************)
(* Startup: the artifacts under model_path and load_models().              *)
(* A file of model_dir is [status, obj]:                                   *)
(*   ok        the first load (with custom_objects) returns obj            *)
(*   fallback  the load with custom_objects raises, compile=False works    *)
(*   corrupt   every load of the file raises                               *)
(***************************************************************************)
File(status, obj) == [status |-> status, obj |-> obj]

\* tf.keras.models.load_model with custom_objects, and on any exception
\* again with compile=False: [ok, obj].
LoadKeras(file) ==
    IF file.status \in {"ok", "fallback"}
    THEN [ok |-> TRUE, obj |-> file.obj]
    ELSE [ok |-> FALSE, obj |-> None]

\* joblib.load: [ok, obj].
LoadPickle(file) ==
    IF file.status = "ok"
    THEN [ok |-> TRUE, obj |-> file.obj]
    ELSE [ok |-> FALSE, obj |-> None]

\* Mutant of load_models_fn: a failed load of the scaler is swallowed and
\* load_models goes on to return True.
load_models_fn_swallowing(dir, G) ==
    LET pm == LoadKeras(dir["persistence_model_nn.keras"])
        cm == LoadKeras(dir["completion_model_nn.keras"])
        gm == LoadKeras(dir["gpa_2nd_model_nn.keras"])
        sc == LoadPickle(dir["scaler_main_features.pkl"])
        fi == LoadPickle(dir["model_info_nn.pkl"])
        G1 == [G EXCEPT !.persistence_model = pm.obj]
        G2 == [G1 EXCEPT !.completion_model = cm.obj]
        G3 == [G2 EXCEPT !.gpa_2nd_model = gm.obj]
        G4 == [G3 EXCEPT !.scaler_main = sc.obj]
        G5 == [G4 EXCEPT !.feature_info = fi.obj]
    IN IF ~pm.ok THEN [ret |-> "False", G |-> G]
       ELSE IF ~cm.ok THEN [ret |-> "False", G |-> G1]
       ELSE IF ~gm.ok THEN [ret |-> "False", G |-> G2]
       ELSE IF ~fi.ok THEN [ret |-> "False", G |-> G4]
       ELSE [ret |-> "True", G |-> G5]

\* load_models(): the value returned and the globals it leaves.  The first
\* load that raises ends it; what was assigned before stays assigned.
load_models_fn(dir, G) ==
    LET pm == LoadKeras(dir["persistence_model_nn.keras"])
        cm == LoadKeras(dir["completion_model_nn.keras"])
        gm == LoadKeras(dir["gpa_2nd_model_nn.keras"])
        sc == LoadPickle(dir["scaler_main_features.pkl"])
        fi == LoadPickle(dir["model_info_nn.pkl"])
        G1 == [G EXCEPT !.persistence_model = pm.obj]
        G2 == [G1 EXCEPT !.completion_model = cm.obj]
        G3 == [G2 EXCEPT !.gpa_2nd_model = gm.obj]
        G4 == [G3 EXCEPT !.scaler_main = sc.obj]
        G5 == [G4 EXCEPT !.feature_info = fi.obj]
    IN IF ~pm.ok THEN [ret |-> "False", G |-> G]
       ELSE IF ~cm.ok THEN [ret |-> "False", G |-> G1]
       ELSE IF ~gm.ok THEN [ret |-> "False", G |-> G2]
       ELSE IF ~sc.ok THEN [ret |-> "False", G |-> G3]
       ELSE IF ~fi.ok THEN [ret |-> "False", G |-> G4]
       ELSE [ret |-> "True", G |-> G5]

(***************************************************************************)
(* The inputs of the model.                                                *)
(***************************************************************************)
\* At most this many members in a /predict request object.
MaxPresent == 2

Lin == Obj("lin")
Std == Obj("std")
Info == Obj("info")

\* Stub networks tried in every combination: in range, below 0, above 1,
\* raising.
HostileNets == {Lin, ConstNet(-500000), ConstNet(1500000), Obj("raise")}

\* Further stub networks, tried one model at a time.
OtherNets == {ConstNet(123456), ConstNet(500000), Obj("nan"), Obj("inf"), Obj("ninf")}

\* The module globals a harness that imports the module may serve with: each
\* artifact present or absent, and with all present, stub networks in place.
InjectedStores ==
    {Globals(pm, cm, gm, sc, fi) :
        pm \in {None, Lin}, cm \in {None, Lin}, gm \in {None, Lin},
        sc \in {None, Std}, fi \in {None, Info}}
    \cup {Globals(pm, cm, gm, Std, Info) :
        pm \in HostileNets, cm \in HostileNets, gm \in HostileNets}
    \cup {Globals(n, Lin, Lin, Std, Info) : n \in OtherNets}
    \cup {Globals(Lin, n, Lin, Std, Info) : n \in OtherNets}
    \cup {Globals(Lin, Lin, n, Std, Info) : n \in OtherNets}
    \cup {Globals(Lin, Lin, Lin, Obj("raise"), Info)}

KerasStatus == {"ok", "fallback", "corrupt"}
PickleStatus == {"ok", "corrupt"}

ModelDir(ps, cs, gs, ss, is) ==
    [f \in {"persistence_model_nn.keras", "completion_model_nn.keras",
            "gpa_2nd_model_nn.keras", "scaler_main_features.pkl",
            "model_info_nn.pkl"} |->
        CASE f = "persistence_model_nn.keras" -> File(ps, Lin)
          [] f = "completion_model_nn.keras" -> File(cs, Lin)
          [] f = "gpa_2nd_model_nn.keras" -> File(gs, Lin)
          [] f = "scaler_main_features.pkl" -> File(ss, Std)
          [] OTHER -> File(is, Info)]

ModelDirs ==
    {ModelDir(ps, cs, gs, ss, is) :
        ps \in KerasStatus, cs \in KerasStatus, gs \in KerasStatus,
        ss \in PickleStatus, is \in PickleStatus}

\* Values a member of a /predict request object takes.
PredictSamples(k) ==
    CASE k = "firstTermGpa" ->
           {JInt(0), JFloat(35), JStrFloat(35), JStrBad, JBool(TRUE)}
      [] k = "highSchool" -> {JInt(0), JFloat(855)}
      [] k = "mathScore" -> {JInt(0), JNull}
      [] k = "englishGrade" -> {JInt(1), JFloat(85)}
      [] k = "gender" -> {JInt(1), JStrBad}
      [] k = "extra" -> {JInt(7)}
      [] OTHER -> {JInt(1), JInt(2)}

RECURSIVE DictsWith(_)
DictsWith(n) ==
    IF n = 0 THEN {NoMembers}
    ELSE LET smaller == DictsWith(n - 1)
         IN smaller \cup
            UNION {UNION {{[d EXCEPT ![k] = v] : v \in PredictSamples(k)} :
                          k \in Keys \ Members(d)} : d \in smaller}

OtherBodies ==
    {Body("unparseable"), Body("null"), Body("emptylist"), Body("list"),
     Body("number"), Body("string")}

PredictBodies == OtherBodies \cup {Dict(d) : d \in DictsWith(MaxPresent)}

\* Values (or Absent) of the three members of a /validate-entry object.
ValidateBodies ==
    OtherBodies \cup
    {Dict([NoMembers EXCEPT !["highSchool"] = hs, !["mathScore"] = ms,
                            !["englishGrade"] = eg]) :
        hs \in {Absent, JInt(-1), JInt(0), JFloat(855), JInt(100), JInt(101),
                JStrBad, JBool(TRUE)},
        ms \in {Absent, JInt(-1), JInt(0), JStrInt(40), JInt(50), JInt(51), JNull},
        eg \in {Absent, JInt(0), JInt(1), JInt(8), JInt(11), JInt(12),
                JFloat(85), JFloat(115), JStrFloat(85)}}

Req(path, data) == [path |-> path, data |-> data]

Requests ==
    {Req("/health", Body("unparseable"))}
    \cup {Req("/predict", b) : b \in PredictBodies}
    \cup {Req("/validate-entry", b) : b \in ValidateBodies}

NoRequest == Req("none", Body("unparseable"))
NoResponse == [code |-> 0, status |-> "", message |-> "", fields |-> NoFields]
Payload(r) == [code |-> r.code, status |-> r.status, message |-> r.message,
               fields |-> r.fields]

CurrentGlobals ==
    Globals(persistence_model, completion_model, gpa_2nd_model, scaler_main,
            feature_info)

(***************************************************************************)
(* The state machine.                                                      *)
(***************************************************************************)
\* run_mode "main": the module runs as a script; the globals are None and
\* the __main__ block is about to call load_models().  run_mode "imported":
\* the module was imported (__name__ is not "__main__"), load_models() is
\* not called by the module, and the importer serves `app` with the globals
\* it has put in place.
Init ==
    /\ request = NoRequest
    /\ response = NoResponse
    /\ calls = <<>>
    /\ load_result = "pending"
    /\ \/ /\ run_mode = "main"
          /\ pc = "start"
          /\ model_dir \in ModelDirs
          /\ persistence_model = None
          /\ completion_model = None
          /\ gpa_2nd_model = None
          /\ scaler_main = None
          /\ feature_info = None
       \/ /\ run_mode = "imported"
          /\ pc = "serving"
          /\ model_dir = ModelDir("ok", "ok", "ok", "ok", "ok")
          /\ \E G \in InjectedStores :
                /\ persistence_model = G.persistence_model
                /\ completion_model = G.completion_model
                /\ gpa_2nd_model = G.gpa_2nd_model
                /\ scaler_main = G.scaler_main
                /\ feature_info = G.feature_info

\* __main__: `if load_models():`
load_models ==
    /\ pc = "start"
    /\ LET r == load_models_fn(model_dir, CurrentGlobals)
       IN /\ persistence_model' = r.G.persistence_model
          /\ completion_model' = r.G.completion_model
          /\ gpa_2nd_model' = r.G.gpa_2nd_model
          /\ scaler_main' = r.G.scaler_main
          /\ feature_info' = r.G.feature_info
          /\ load_result' = r.ret
    /\ pc' = "loaded"
    /\ UNCHANGED <<model_dir, run_mode, request, response, calls>>

\* __main__: app.run(host='0.0.0.0', port=port, debug=False)
app_run ==
    /\ pc = "loaded"
    /\ load_result = "True"
    /\ pc' = "serving"
    /\ UNCHANGED <<globals, model_dir, run_mode, load_result, request, response, calls>>

\* __main__: exit(1)
exit ==
    /\ pc = "loaded"
    /\ load_result # "True"
    /\ pc' = "exited"
    /\ UNCHANGED <<globals, model_dir, run_mode, load_result, request, response, calls>>

\* Flask routes a request to its view function.
Receive ==
    /\ pc = "serving"
    /\ request = NoRequest
    /\ \E r \in Requests : request' = r
    /\ UNCHANGED <<globals, model_dir, run_mode, pc, load_result, response, calls>>

Handle(path, r) ==
    /\ pc = "serving"
    /\ request.path = path
    /\ response = NoResponse
    /\ response' = Payload(r)
    /\ calls' = r.calls

health ==
    /\ Handle("/health", health_view(CurrentGlobals))
    /\ UNCHANGED <<globals, model_dir, run_mode, pc, load_result, request>>

\* Mutant of predict: the except branch drops the GPA model so that the
\* next request reloads it.
predict_dropping_model ==
    /\ Handle("/predict", predict_view(CurrentGlobals, request.data))
    /\ gpa_2nd_model' = IF response'.code = 400 THEN None ELSE gpa_2nd_model
    /\ UNCHANGED <<persistence_model, completion_model, scaler_main, feature_info,
                   model_dir, run_mode, pc, load_result, request>>

predict ==
    /\ Handle("/predict", predict_view(CurrentGlobals, request.data))
    /\ UNCHANGED <<globals, model_dir, run_mode, pc, load_result, request>>

validate_entry ==
    /\ Handle("/validate-entry", validate_entry_view(CurrentGlobals, request.data))
    /\ UNCHANGED <<globals, model_dir, run_mode, pc, load_result, request>>

\* The response has been sent; the request context is popped.
Complete ==
    /\ response # NoResponse
    /\ request' = NoRequest
    /\ response' = NoResponse
    /\ calls' = <<>>
    /\ UNCHANGED <<globals, model_dir, run_mode, pc, load_result>>

Next ==
    \/ load_models
    \/ app_run
    \/ exit
    \/ Receive
    \/ health
    \/ predict
    \/ validate_entry
    \/ Complete

Spec == Init /\ [][Next]_vars

(***************************************************************************)
(* Vocabulary of the properties.                                           *)
(***************************************************************************)
\* The handler of `path` has answered the request in flight.
Responded(path) == request.path = path /\ response # NoResponse

AllPresent(keys) == \A k \in keys : response.fields[k] # Absent
NonePresent(keys) == \A k \in keys : response.fields[k] = Absent

\* All four artifacts that readiness counts are set.
StoreComplete ==
    /\ persistence_model # None
    /\ completion_model # None
    /\ gpa_2nd_model # None
    /\ scaler_main # None

\* A finite number of the response within [lo, hi] (in the field's unit).
Within(j, lo, hi) == j.t = "float" /\ lo <= j.v /\ j.v <= hi

\* n limited to [lo, hi].
Limit(n, lo, hi) == IF n < lo THEN lo ELSE IF n > hi THEN hi ELSE n

Dist(a, b) == IF a >= b THEN a - b ELSE b - a

\* Two JSON numbers with the same numeric value (3 and 3.0 are the same).
SameNumber(j, out) ==
    /\ j.t \in {"int", "float"}
    /\ out.t \in {"int", "float"}
    /\ j.v = out.v

\* The number (tenths) a JSON value stands for once coerced to a float:
\* a number is itself, a numeric string is the number it spells, true and
\* false are 1 and 0.
NumberOf(j) == IF j.t = "bool" THEN 10 * j.v ELSE j.v

\* C1: every successful /predict answer has both probabilities in [0, 1]
\* and the GPA in [0, 4.5], whatever the three networks return; the GPA is
\* the raw output times 4.5, then clamped (checked on the stub networks
\* whose raw output is known: the answer is within half a hundredth of
\* raw * 4.5 limited to [0, 4.5]).
C1_OutputsClamped ==
    (Responded("/predict") /\ response.code = 200) =>
        /\ Within(response.fields["persistenceProbability"], 0, 10000)
        /\ Within(response.fields["completionProbability"], 0, 10000)
        /\ Within(response.fields["predictedSecondTermGpa"], 0, 450)
        /\ gpa_2nd_model.kind = "const" =>
             Dist(response.fields["predictedSecondTermGpa"].v * 100000,
                  Limit(gpa_2nd_model.raw * 45, 0, 45000000)) <= 50000
        /\ persistence_model.kind = "const" =>
             Dist(response.fields["persistenceProbability"].v * 100,
                  Limit(persistence_model.raw, 0, 1000000)) <= 50

\* C1 witness: a success with a persistence output above 1 and a GPA output
\* below 0, both clamped.
C1_Witness ==
    /\ Responded("/predict")
    /\ response.code = 200
    /\ persistence_model = ConstNet(1500000)
    /\ gpa_2nd_model = ConstNet(-500000)
    /\ response.fields["persistenceProbability"].v = 10000
    /\ response.fields["predictedSecondTermGpa"].v = 0

\* C2: /health answers 200 with models_loaded = true exactly when the three
\* models and the scaler are all set, and 503 with models_loaded = false
\* otherwise; and while one of the four is absent /predict answers 503 to
\* every body and calls no model and no scaler.
C2_ReadinessGate ==
    /\ Responded("/health") =>
         IF StoreComplete
         THEN /\ response.code = 200
              /\ response.fields["models_loaded"] = JBool(TRUE)
         ELSE /\ response.code = 503
              /\ response.fields["models_loaded"] = JBool(FALSE)
    /\ (Responded("/predict") /\ ~StoreComplete) =>
         /\ response.code = 503
         /\ response.status = "error"
         /\ calls = <<>>

\* C2 witness: /health has answered 503 with only the scaler absent.
C2_Witness ==
    /\ Responded("/health")
    /\ response.code = 503
    /\ persistence_model # None
    /\ completion_model # None
    /\ gpa_2nd_model # None
    /\ scaler_main = None

\* Some artifact cannot be loaded by any of the loads tried on it.
SomeLoadFails ==
    \E f \in DOMAIN model_dir : model_dir[f].status = "corrupt"

\* C3: run as a script, when some artifact fails to load, load_models
\* returns False, neither app.run nor a request can follow, and no request
\* is ever received or answered; the server serves only after load_models
\* has returned True with the three models and the scaler set.
C3_StartupGate ==
    run_mode = "main" =>
        /\ (SomeLoadFails /\ pc # "start") =>
              /\ load_result = "False"
              /\ pc \in {"loaded", "exited"}
              /\ ~ENABLED app_run
              /\ ~ENABLED Receive
        /\ pc = "serving" => (load_result = "True" /\ StoreComplete)
        /\ (request # NoRequest \/ response # NoResponse) => pc = "serving"

\* C3 witness: the process has exited after the third model failed to load,
\* the first two being loaded already.
C3_Witness ==
    /\ run_mode = "main"
    /\ pc = "exited"
    /\ model_dir["gpa_2nd_model_nn.keras"].status = "corrupt"
    /\ persistence_model # None
    /\ completion_model # None

\* The documented default of a /predict field.
DefaultOf(k) ==
    IF k \in {"highSchool", "mathScore", "firstTermGpa"} THEN JInt(0) ELSE JInt(1)

\* The request object d with the fields of S passed at their defaults.
WithDefaults(d, S) == [k \in Keys |-> IF k \in S THEN DefaultOf(k) ELSE d[k]]

\* C4: with the store complete, a /predict request that omits a set S of
\* the 13 fields is answered as the request that passes each field of S at
\* its default, for every S, the set of all 13 fields included.
C4_OmittedFieldsDefault ==
    (Responded("/predict") /\ StoreComplete /\ request.data.kind = "dict") =>
        \A S \in SUBSET (PredictKeys \ Members(request.data.d)) :
            Payload(predict_view(CurrentGlobals,
                                 Dict(WithDefaults(request.data.d, S)))) = response

\* A JSON number (or the string of one) within [lo, hi], in tenths.
NumberWithin(j, lo, hi) ==
    /\ j.t \in {"int", "float", "strint", "strfloat"}
    /\ lo <= j.v
    /\ j.v <= hi

\* C5: /validate-entry answers 200 / success exactly when the three fields
\* are present with highSchool in [0, 100], mathScore in [0, 50] and
\* englishGrade in [1, 11]; in every other case it answers 400 / error.
C5_ValidateEntryIffInRange ==
    Responded("/validate-entry") =>
        IF /\ request.data.kind = "dict"
           /\ NumberWithin(request.data.d["highSchool"], 0, 1000)
           /\ NumberWithin(request.data.d["mathScore"], 0, 500)
           /\ NumberWithin(request.data.d["englishGrade"], 10, 110)
        THEN response.code = 200 /\ response.status = "success"
        ELSE response.code = 400 /\ response.status = "error"

\* C6 as claimed: the echoed providedFirstTermGpa is the firstTermGpa value
\* of the request, untransformed.
C6_EchoUntransformed ==
    (Responded("/predict") /\ response.code = 200
       /\ request.data.d["firstTermGpa"] # Absent) =>
        SameNumber(request.data.d["firstTermGpa"],
                   response.fields["providedFirstTermGpa"])

\* C6 as amended: providedFirstTermGpa is the float the request's
\* firstTermGpa coerces to, whatever the networks return and whatever the
\* other fields hold: the same number for a JSON number, the number spelled
\* for a numeric string, 1.0 / 0.0 for true / false, 0.0 when omitted.
C6_EchoIsFloatOfInput ==
    (Responded("/predict") /\ response.code = 200) =>
        LET j == request.data.d["firstTermGpa"]
        IN /\ j.t \in {"absent", "int", "float", "strint", "strfloat", "bool"}
           /\ response.fields["providedFirstTermGpa"] = JFloat(NumberOf(j))

\* C6 witness: a success that echoes 3.5 for the string "3.5", next to
\* another field and with a model output out of range.
C6_Witness ==
    /\ Responded("/predict")
    /\ response.code = 200
    /\ request.data.d["firstTermGpa"] = JStrFloat(35)
    /\ request.data.d["highSchool"] = JFloat(855)
    /\ gpa_2nd_model = ConstNet(1500000)
    /\ response.fields["providedFirstTermGpa"] = JFloat(35)

\* C7: a /predict answer is either 200 / success with all four prediction
\* fields, or 503 (store incomplete) or 400 (no usable body, or a coercion,
\* scaling or inference failure) with status error and none of the four,
\* also when the failure comes after some models have been called.
C7_AllOrNothing ==
    Responded("/predict") =>
        /\ \/ /\ response.code = 200
              /\ response.status = "success"
              /\ AllPresent(PredictionFields)
              /\ Len(calls) = 4
           \/ /\ response.code \in {400, 503}
              /\ response.status = "error"
              /\ NonePresent(PredictionFields)
        /\ response.code = 503 <=> ~StoreComplete
        /\ (StoreComplete /\ (request.data.kind # "dict" \/ ~Truthy(request.data)))
              => response.code = 400
        /\ (StoreComplete /\ \E a \in {persistence_model, completion_model,
                                        gpa_2nd_model, scaler_main} :
                                  a.kind = "raise"
              /\ request.data.kind = "dict" /\ Truthy(request.data))
              => response.code = 400

\* C7 witness: the completion model raised after the scaler and the
\* persistence model had been called; the answer is a bare 400.
C7_Witness ==
    /\ Responded("/predict")
    /\ response.code = 400
    /\ calls = <<"scaler_main", "persistence_model", "completion_model">>
    /\ NonePresent(PredictionFields)

\* C8 as claimed: on success entryData echoes the three submitted values.
C8_EchoSubmitted ==
    (Responded("/validate-entry") /\ response.code = 200) =>
        /\ SameNumber(request.data.d["highSchool"],
                      response.fields["entryData.highSchool"])
        /\ SameNumber(request.data.d["mathScore"],
                      response.fields["entryData.mathScore"])
        /\ SameNumber(request.data.d["englishGrade"],
                      response.fields["entryData.englishGrade"])

\* C8 as amended: on success entryData holds the validated values, that is
\* the submitted highSchool and mathScore coerced to floats and the
\* submitted englishGrade coerced to an integer, a fraction being cut off.
C8_EchoValidated ==
    (Responded("/validate-entry") /\ response.code = 200) =>
        LET hs == request.data.d["highSchool"]
            ms == request.data.d["mathScore"]
            eg == request.data.d["englishGrade"]
        IN /\ response.fields["entryData.highSchool"] = JFloat(NumberOf(hs))
           /\ response.fields["entryData.mathScore"] = JFloat(NumberOf(ms))
           /\ eg.t \in {"int", "float", "strint", "bool"}
           /\ response.fields["entryData.englishGrade"].t = "int"
           /\ LET n == response.fields["entryData.englishGrade"].v
              IN /\ n % 10 = 0
                 /\ n <= NumberOf(eg)
                 /\ NumberOf(eg) < n + 10

\* C8 witness: englishGrade 8.5 was accepted and echoed as 8, next to
\* mathScore "40" echoed as 40.0.
C8_Witness ==
    /\ Responded("/validate-entry")
    /\ response.code = 200
    /\ request.data.d["englishGrade"] = JFloat(85)
    /\ request.data.d["mathScore"] = JStrInt(40)
    /\ response.fields["entryData.englishGrade"] = JInt(8)
    /\ response.fields["entryData.mathScore"] = JFloat(400)

\* C9: no step taken while serving (a request being routed, a handler
\* answering it with success or error, the answer being sent) changes any
\* of the five store globals, so readiness never changes while serving.
C9_StoreReadOnly ==
    [][pc = "serving" =>
         /\ persistence_model' = persistence_model
         /\ completion_model' = completion_model
         /\ gpa_2nd_model' = gpa_2nd_model
         /\ scaler_main' = scaler_main
         /\ feature_info' = feature_info]_vars

\* C9 witness: /predict has answered with an error, the store complete.
C9_Witness ==
    /\ Responded("/predict")
    /\ response.code = 400
    /\ StoreComplete
    /\ feature_info # None

\* C10: /validate-entry never answers 503, calls no model and no scaler,
\* and answers a body the same way under every store, complete or not.
C10_ValidateEntryIgnoresStore ==
    Responded("/validate-entry") =>
        /\ response.code # 503
        /\ calls = <<>>
        /\ \A G \in InjectedStores :
              Payload(validate_entry_view(G, request.data)) = response

\* C10 witness: /validate-entry has accepted a body with nothing loaded.
C10_Witness ==
    /\ Responded("/validate-entry")
    /\ response.code = 200
    /\ persistence_model = None
    /\ completion_model = None
    /\ gpa_2nd_model = None
    /\ scaler_main = None

====
